---------------------------- MODULE Spec2Model ----------------------------
(***************************************************************************)
(* Model of src/functions.js: the token scanner (processOneToken), the     *)
(* metadata lookup (getTokenInfo), the worker pool and task distributor    *)
(* (findBalances, distributeTasks, findAvailableWorker, executeTask), the  *)
(* retrying balance query (getBalanceOf) and the report (numberWithCommas, *)
(* formatTokenResult).                                                     *)
(*                                                                         *)
(* JavaScript runs the code on one event loop: a block of code between two *)
(* suspension points (await, promise callback, timer) is one action here.  *)
(* Array indices are 0-based as in the source; the element at JavaScript   *)
(* index i of an array modelled by sequence s is s[i + 1].                 *)
(***************************************************************************)
EXTENDS Integers, Sequences, FiniteSets, TLC

(* ------------------------------ bounds -------------------------------- *)

\* longest address list handed to processOneToken
MaxLen == 3
\* largest worker pool (number of RPC endpoints of ethRpcArray)
MaxWorkers == 2
\* most balance queries that fail during one scan
MaxFails == 2
\* most tokens the caller scans, one after the other, over the same list
MaxScans == 2
\* most balances handed to the aggregation when it is checked on its own
MaxBalances == 4

(* --------------------------- input universes -------------------------- *)

Addresses == {"a", "b", "c"}

Tokens == {"T1", "T2", "T3"}

\* JavaScript null, kept apart from every ticker string
Null == "<null>"

\* the sequences over S of length at most n
SeqsUpTo(S, n) == UNION {[1..k -> S] : k \in 0..n}

VARIABLES
    contractList,           \* the caller's address list (argument of processOneToken)
    chain,                  \* the chain selected at load time (line 10)
    ethRpcArray,            \* the endpoints configured for chain 'eth'
    down,                   \* endpoints whose balance queries fail forever
    tokenList,              \* the tokens the caller scans, in order
    scanned,                \* how many of them processOneToken was called for
    pc,                     \* where the current scan is suspended
    tokenAddress,           \* argument of the current processOneToken call
    replies,                \* the replies getTokenInfo received in the current scan
    tokenObject,            \* result of getTokenInfo
    localList,              \* processOneToken's working copy of the list
    workers,                \* findBalances' workers: sequence of [isBusy]
    taskQueue,              \* distributeTasks' pending queue
    completedTasks,         \* distributeTasks' promises, one per launched task
    availableWorkerIndex,   \* index findAvailableWorker resolved with
    calls,                  \* balanceOf requests awaiting the endpoint's answer
    balances,               \* value distributeTasks returned
    scanResult,             \* value processOneToken returned
    report,                 \* value formatTokenResult returned for scanResult
    launched,               \* history: (address, worker) of each executeTask call
    queryLog                \* history: per promise, the balanceOf calls issued and failed

vars == <<contractList, chain, ethRpcArray, down, tokenList, scanned, pc, tokenAddress, tokenObject,
          localList, workers, taskQueue, completedTasks, availableWorkerIndex,
          calls, balances, scanResult, launched, queryLog, replies, report>>


(* ----------------------- JavaScript array helpers --------------------- *)

NotFound == -1

\* mutant of IndexOf: lastIndexOf, the index of the last element equal to x
LastIndexOf(list, x) ==
    IF \E i \in 1..Len(list) : list[i] = x
    THEN (CHOOSE i \in 1..Len(list) :
              list[i] = x /\ \A j \in (i + 1)..Len(list) : list[j] # x) - 1
    ELSE -1

\* Array.prototype.indexOf: the 0-based index of the first element equal to x
IndexOf(list, x) ==
    IF \E i \in 1..Len(list) : list[i] = x
    THEN (CHOOSE i \in 1..Len(list) :
              list[i] = x /\ \A j \in 1..(i - 1) : list[j] # x) - 1
    ELSE NotFound

\* Array.prototype.splice(index, 1): the array without the element at index
Splice1(list, index) ==
    [i \in 1..(Len(list) - 1) |-> IF i <= index THEN list[i] ELSE list[i + 1]]

\* mutant of FindIndexIdle: the workers take turns, the k-th task waits for
\* worker k mod N
FindIndexRoundRobin(ws) ==
    LET turn == Len(launched) % Len(ws)
    IN  IF ws[turn + 1].isBusy THEN NotFound ELSE turn

\* mutant of FindIndexIdle: the predicate reads a field no worker has, so
\* every worker counts as idle
FindIndexAnyWorker(ws) == IF Len(ws) > 0 THEN 0 ELSE NotFound

\* workers.findIndex(worker => !worker.isBusy)
FindIndexIdle(ws) ==
    IF \E i \in 1..Len(ws) : ~ws[i].isBusy
    THEN (CHOOSE i \in 1..Len(ws) :
              ~ws[i].isBusy /\ \A j \in 1..(i - 1) : ws[j].isBusy) - 1
    ELSE NotFound

(* ------------------------------ getTokenInfo -------------------------- *)

\* Replies of the token contract and of the price services.  A reply is
\* [ok, val]: ok = FALSE is a call that throws.
TickerReplies ==
    { [ok |-> FALSE, val |-> ""], [ok |-> TRUE, val |-> "TKN"] }

\* symbol(), ticker() and the bytes32 symbol() may also return an empty string
WideTickerReplies == TickerReplies \cup { [ok |-> TRUE, val |-> ""] }

\* decimals(): val is the number returned; numeric = FALSE is a value Number()
\* turns into NaN
DecimalsReplies ==
    { [ok |-> FALSE, numeric |-> FALSE, val |-> 0],
      [ok |-> TRUE,  numeric |-> TRUE,  val |-> 2] }

WideDecimalsReplies ==
    DecimalsReplies \cup { [ok |-> TRUE, numeric |-> TRUE,  val |-> 0],
                           [ok |-> TRUE, numeric |-> FALSE, val |-> 0] }

\* A price service reply: ok is "no exception and status 200"; body is the
\* kind of JSON value req.json() resolved with; price and USD are the body's
\* fields, <<>> when the field is absent.
Api1Replies ==
    { [ok |-> FALSE, body |-> "none",   price |-> <<>>,  USD |-> <<>>],
      [ok |-> TRUE,  body |-> "object", price |-> <<2>>, USD |-> <<>>] }

Api2Replies ==
    { [ok |-> FALSE, body |-> "none",   price |-> <<>>, USD |-> <<>>],
      [ok |-> TRUE,  body |-> "object", price |-> <<>>, USD |-> <<2>>] }

\* status 200 with a body that carries no price: an object without the field,
\* or the JSON value null
PricelessReplies ==
    { [ok |-> TRUE, body |-> "object", price |-> <<>>, USD |-> <<>>],
      [ok |-> TRUE, body |-> "null",   price |-> <<>>, USD |-> <<>>] }

WideApi1Replies ==
    Api1Replies \cup PricelessReplies
        \cup { [ok |-> TRUE, body |-> "object", price |-> <<0>>, USD |-> <<>>] }

WideApi2Replies == Api2Replies \cup PricelessReplies

\* a lookup getTokenInfo did not make
TickerNotAsked == [ok |-> FALSE, val |-> "<not asked>"]
PriceNotAsked == [ok |-> FALSE, body |-> "<not asked>", price |-> <<>>, USD |-> <<>>]

\* lines 65-95: the ticker and the validity flag after the three lookups
TickerLookup(sym, tick, sym32) ==
    LET t1 == IF sym.ok THEN sym.val ELSE ""
        t2 == IF t1 = "" /\ tick.ok THEN tick.val ELSE t1
    IN  IF t2 # ""
        THEN [ticker |-> t2, valid |-> TRUE]
        ELSE IF sym32.ok
             THEN [ticker |-> sym32.val, valid |-> TRUE]
             ELSE [ticker |-> "unknown", valid |-> FALSE]

\* lines 97-101 and 136: Number(decimals) || 18; NaN and 0 are both falsy
DecimalsOf(dec) ==
    LET decimals == IF dec.ok THEN dec ELSE [ok |-> TRUE, numeric |-> TRUE, val |-> 18]
    IN  IF decimals.numeric /\ decimals.val # 0 THEN decimals.val ELSE 18

\* lines 104-130: priceObj after the price lookups
PriceObj(valid, api1, api2) ==
    LET p0 == [body |-> "object", price |-> <<0>>, USD |-> <<0>>]
        p1 == IF valid /\ api1.ok
              THEN [body |-> api1.body, price |-> api1.price, USD |-> api1.USD] ELSE p0
    IN  IF valid /\ p1.body = "object" /\ p1.price = <<0>> /\ api2.ok
        THEN [body |-> api2.body, price |-> api2.price, USD |-> api2.USD] ELSE p1

\* lines 104-130 and 137: priceObj['price'] ?? priceObj['USD'] ?? 0
PriceOf(valid, api1, api2) ==
    LET p2 == PriceObj(valid, api1, api2)
    IN  IF p2.price # <<>> THEN p2.price[1]
        ELSE IF p2.USD # <<>> THEN p2.USD[1] ELSE 0

getTokenInfo(sym, tick, sym32, dec, api1, api2) ==
    LET t == TickerLookup(sym, tick, sym32)
    IN  [ticker   |-> t.ticker,
         valid    |-> t.valid,
         decimals |-> DecimalsOf(dec),
         price    |-> PriceOf(t.valid, api1, api2)]

\* lines 119 and 137: priceObj.price and priceObj['price'] are read outside
\* the try blocks and throw a TypeError when priceObj is null
getTokenInfoThrows(sym, tick, sym32, api1, api2) ==
    PriceObj(TickerLookup(sym, tick, sym32).valid, api1, api2).body = "null"

\* lines 65-130: the replies getTokenInfo received, r being what each lookup
\* would answer; a lookup the code skips is not asked
Received(r) ==
    LET t1 == IF r.sym.ok THEN r.sym.val ELSE ""
        t2 == IF t1 = "" /\ r.tick.ok THEN r.tick.val ELSE t1
        valid == TickerLookup(r.sym, r.tick, r.sym32).valid
        first == PriceObj(valid, r.api1, PriceNotAsked)
    IN  [sym   |-> r.sym,
         tick  |-> IF t1 = "" THEN r.tick ELSE TickerNotAsked,
         sym32 |-> IF t2 = "" THEN r.sym32 ELSE TickerNotAsked,
         dec   |-> r.dec,
         api1  |-> IF valid THEN r.api1 ELSE PriceNotAsked,
         api2  |-> IF valid /\ first.body = "object" /\ first.price = <<0>>
                   THEN r.api2 ELSE PriceNotAsked]

\* every token description getTokenInfo can return on the replies above
TokenInfos ==
    { getTokenInfo(sym, tick, sym32, dec, api1, api2) :
        sym \in TickerReplies, tick \in TickerReplies, sym32 \in TickerReplies,
        dec \in DecimalsReplies, api1 \in Api1Replies, api2 \in Api2Replies }

\* no metadata call has been made
NoReplies ==
    [sym |-> TickerNotAsked, tick |-> TickerNotAsked, sym32 |-> TickerNotAsked,
     dec |-> [ok |-> FALSE, numeric |-> FALSE, val |-> 0],
     api1 |-> PriceNotAsked, api2 |-> PriceNotAsked]

\* what the lookups answer in the scans of the distributor's specifications:
\* symbol() and the first price service decide
ScanReplies ==
    { Received([sym |-> sym, tick |-> [ok |-> FALSE, val |-> ""],
                sym32 |-> [ok |-> FALSE, val |-> ""], dec |-> dec, api1 |-> api1,
                api2 |-> [ok |-> FALSE, body |-> "none", price |-> <<>>, USD |-> <<>>]]) :
        sym \in TickerReplies, dec \in DecimalsReplies, api1 \in Api1Replies }

\* every answer of every lookup
WideReplies ==
    { Received([sym |-> sym, tick |-> tick, sym32 |-> sym32, dec |-> dec,
                api1 |-> api1, api2 |-> api2]) :
        sym \in WideTickerReplies, tick \in WideTickerReplies, sym32 \in WideTickerReplies,
        dec \in WideDecimalsReplies, api1 \in WideApi1Replies, api2 \in WideApi2Replies }

(* ------------------------- exclusion (processOneToken) ---------------- *)

\* excludedMap of ./const: token -> addresses to skip for that token only.
\* T1 has no entry (excludedMap.has is false for it).
excludedMap ==
    [t \in {"T2", "T3"} |-> IF t = "T2" THEN <<"c", "a">> ELSE <<"b">>]

\* lines 292-297: for each excluded address, splice out its first occurrence
RECURSIVE ExcludeAll(_, _)
ExcludeAll(list, excluded) ==
    IF excluded = <<>>
    THEN list
    ELSE LET index == IndexOf(list, Head(excluded))
         IN  ExcludeAll(IF index > -1 THEN Splice1(list, index) ELSE list,
                        Tail(excluded))

\* lines 287-298: the working list of a scan of token t
LocalListOf(list, t) ==
    IF t \in DOMAIN excludedMap THEN ExcludeAll(list, excludedMap[t]) ELSE list

\* mutant of CallerListAfter: localList = contractList, one array under two
\* names, so the splices reach the caller's list
AliasedListAfter(list, spliced) == spliced

\* line 287: localList is a fresh array ([...contractList]); the splices of
\* line 295 act on it and the caller's array keeps its elements
CallerListAfter(list, spliced) == list

\* mutant of InvalidToken: the validity check is skipped
NeverInvalid(info) == FALSE

\* line 301: if (!tokenObject.valid)
InvalidToken(info) == ~info.valid

(* --------------------------- balances on chain ------------------------ *)

\* what token.methods.balanceOf(address) answers when the call succeeds
Ledger ==
    [t \in Tokens |->
        CASE t = "T1" -> [a \in Addresses |-> CASE a = "a" -> 5 [] a = "b" -> 0 [] OTHER -> 100]
          [] t = "T2" -> [a \in Addresses |-> CASE a = "a" -> 3 [] a = "b" -> 250 [] OTHER -> 0]
          [] OTHER    -> [a \in Addresses |-> CASE a = "a" -> 1234 [] a = "b" -> 7 [] OTHER -> 700]]

(* ---------------------- numberWithCommas, findBalances ---------------- *)

Digit == <<"0", "1", "2", "3", "4", "5", "6", "7", "8", "9">>

\* Number.prototype.toString of a non-negative integer
RECURSIVE NatToString(_)
NatToString(n) ==
    IF n < 10 THEN Digit[n + 1] ELSE NatToString(n \div 10) \o Digit[(n % 10) + 1]

\* line 44: a comma before every group of three digits counted from the right
RECURSIVE WithCommas(_)
WithCommas(n) ==
    IF n < 1000
    THEN NatToString(n)
    ELSE WithCommas(n \div 1000) \o "," \o Digit[((n \div 100) % 10) + 1]
             \o Digit[((n \div 10) % 10) + 1] \o Digit[(n % 10) + 1]

\* lines 41-49, for the non-negative integers x the model computes
numberWithCommas(x) == IF x = 0 THEN "0.00" ELSE WithCommas(x)

\* balance / BigInt(Number(`1e${decimals}`)): BigInt division truncates
RECURSIVE DivPow10(_, _)
DivPow10(b, d) == IF d = 0 \/ b = 0 THEN b ELSE DivPow10(b \div 10, d - 1)

\* lines 255-266: one record per balance > 0n, in input order
RECURSIVE RecordsFrom(_, _, _, _)
RecordsFrom(bals, list, info, i) ==
    IF i > Len(bals)
    THEN <<>>
    ELSE LET amount == DivPow10(bals[i], info.decimals)
             rest   == RecordsFrom(bals, list, info, i + 1)
         IN  IF bals[i] > 0
             THEN <<[amount        |-> bals[i],
                     roundedAmount |-> amount,
                     dollarValue   |-> numberWithCommas(amount * info.price),
                     contract      |-> list[i]]>> \o rest
             ELSE rest

\* mutant of SortRecords: the records stay in input order
NoSort(rs) == rs

\* line 269: records.sort((a, b) => b.roundedAmount - a.roundedAmount); the
\* sort is stable, so equal roundedAmounts keep their input order
SortRecords(rs) ==
    LET Before(i) ==
            Cardinality({j \in 1..Len(rs) :
                            \/ rs[j].roundedAmount > rs[i].roundedAmount
                            \/ rs[j].roundedAmount = rs[i].roundedAmount /\ j < i})
    IN  [p \in 1..Len(rs) |-> rs[CHOOSE i \in 1..Len(rs) : Before(i) = p - 1]]

\* lines 251-271
findBalancesRecords(bals, list, info) == SortRecords(RecordsFrom(bals, list, info, 1))

(* ---------------------------- formatTokenResult ----------------------- *)

\* b modulo 10^d
RECURSIVE RemPow10(_, _)
RemPow10(b, d) ==
    IF d = 0 \/ b = 0 THEN 0 ELSE (b % 10) + 10 * RemPow10(b \div 10, d - 1)

\* The number n / 10^d, kept exactly as int + frac / 10^scale.  The floating
\* point quotient of line 350 prints as this decimal for the n of the model.
Scaled(n, d) == [int |-> DivPow10(n, d), frac |-> RemPow10(n, d), scale |-> d]

\* line 351: roundedAmount * res.price, for an integer price
TimesPrice(q, price) ==
    [int   |-> q.int * price + DivPow10(q.frac * price, q.scale),
     frac  |-> RemPow10(q.frac * price, q.scale),
     scale |-> q.scale]

\* lines 41-49 for a number q with a fractional part: '0.00' below 0.000001,
\* else the integer part with commas and at most two digits of the fraction
\* toString printed (which has no trailing zeros)
numberWithCommasOf(q) ==
    LET tiny == /\ q.int = 0
                /\ IF q.scale >= 6 THEN DivPow10(q.frac, q.scale - 6) = 0 ELSE q.frac = 0
        d1   == DivPow10(q.frac, q.scale - 1) % 10
        d2   == DivPow10(q.frac, q.scale - 2) % 10
    IN  IF tiny THEN "0.00"
        ELSE IF q.frac = 0 THEN WithCommas(q.int)
        ELSE IF RemPow10(q.frac, q.scale - 1) = 0
             THEN WithCommas(q.int) \o "." \o Digit[d1 + 1]
             ELSE WithCommas(q.int) \o "." \o Digit[d1 + 1] \o Digit[d2 + 1]

\* line 345: sum += record.amount over the records
RECURSIVE SumOfAmounts(_)
SumOfAmounts(rs) == IF rs = <<>> THEN 0 ELSE Head(rs).amount + SumOfAmounts(Tail(rs))

\* the sum of the records' roundedAmount
RECURSIVE SumOfRounded(_)
SumOfRounded(rs) ==
    IF rs = <<>> THEN 0 ELSE Head(rs).roundedAmount + SumOfRounded(Tail(rs))

\* mutant of HeaderTotal: the total is the sum of the rounded amounts
TotalOfRounded(rs, decimals) == [int |-> SumOfRounded(rs), frac |-> 0, scale |-> decimals]

\* lines 340-350: Number(sum) / Number(`1e${res.decimals}`)
HeaderTotal(rs, decimals) == Scaled(SumOfAmounts(rs), decimals)

\* line 344
RecordLine(record, ticker) ==
    "Contract " \o record.contract \o " => " \o numberWithCommas(record.roundedAmount)
        \o " " \o ticker \o " ( $" \o record.dollarValue \o " )"

\* line 353
HeaderLine(ticker, address, total, asDollar) ==
    ticker \o " [" \o address \o "]: " \o numberWithCommasOf(total)
        \o " tokens lost / $" \o numberWithCommasOf(asDollar)

\* lines 329-358; resStr is the sequence of the lines of the returned string
formatTokenResult(res) ==
    IF res.ticker = Null \/ res.ticker = ""
    THEN [resStr   |-> <<"??? [" \o res.tokenAddress \o "] - unknown token">>,
          asDollar |-> Scaled(0, 0)]
    ELSE IF res.price = -1
    THEN [resStr   |-> <<res.ticker \o " [" \o res.tokenAddress
                            \o "]: not checked - no price found">>,
          asDollar |-> Scaled(0, 0)]
    ELSE LET roundedAmount == HeaderTotal(res.records, res.decimals)
             asDollar      == TimesPrice(roundedAmount, res.price)
         IN  [resStr   |-> <<HeaderLine(res.ticker, res.tokenAddress, roundedAmount, asDollar),
                             "-----------------------------------------------">>
                               \o [k \in 1..Len(res.records) |->
                                      RecordLine(res.records[k], res.ticker)],
              asDollar |-> asDollar]

(* --------------------------- distributor steps ------------------------ *)

NoToken == [ticker |-> "", valid |-> FALSE, decimals |-> 18, price |-> 0]

\* formatTokenResult has not been called
NoReport == [resStr |-> <<>>, asDollar |-> [int |-> 0, frac |-> 0, scale |-> 0]]

NoResult ==
    [tokenAddress |-> "", ticker |-> Null, decimals |-> 0, price |-> 0, records |-> <<>>]

\* mutant of Shift: the task after the one taken leaves the queue with it
ShiftTwo(queue) ==
    [task |-> Head(queue), rest |-> IF Len(queue) > 1 THEN Tail(Tail(queue)) ELSE <<>>]

\* mutant of Shift: taskQueue.pop() takes the last task
Pop(queue) == [task |-> queue[Len(queue)], rest |-> SubSeq(queue, 1, Len(queue) - 1)]

\* line 174: taskQueue.shift() returns the head of the queue and leaves the rest
Shift(queue) == [task |-> Head(queue), rest |-> Tail(queue)]

\* lines 168-170 and 193-200: the loop test and, when tasks are left, the
\* first (synchronous) run of checkAvailability
LoopTop(ws, queue) ==
    IF queue = <<>>
    THEN [pc |-> "join", index |-> NotFound]
    ELSE LET index == FindIndexIdle(ws)
         IN  IF index # NotFound
             THEN [pc |-> "found", index |-> index]
             ELSE [pc |-> "polling", index |-> NotFound]

\* mutant of FirstCall: the request goes through the first worker's contract
FirstCallOnWorkerZero(w, address, slot) ==
    [worker |-> 1, address |-> address, slot |-> slot, try |-> 1]

\* lines 220 and 149: the balanceOf request executeTask issues for a promise
FirstCall(w, address, slot) ==
    [worker |-> w, address |-> address, slot |-> slot, try |-> 1]

\* mutant of RetryCall: the retry goes to the next worker of the pool
RetryOnNextWorker(c) ==
    [c EXCEPT !.try = c.try + 1, !.worker = (c.worker % Len(workers)) + 1]

\* line 151: getBalanceOf(token, address) again, from the catch handler
RetryCall(c) == [c EXCEPT !.try = c.try + 1]

\* mutant of CallsAfterFailure: the handler retries twice
CallsAfterFailureTwice(cs, c) ==
    (cs \ {c}) \cup {[c EXCEPT !.try = c.try + 1], [c EXCEPT !.try = c.try + 2]}

\* lines 149-152: a failed call is replaced by its retry
CallsAfterFailure(cs, c) == (cs \ {c}) \cup {RetryCall(c)}

\* mutant of BusyAfterAssign: executeTask does not mark the worker
IdleAfterAssign(ws, w) == ws

\* line 218: worker.isBusy = true, before the balanceOf request is issued
BusyAfterAssign(ws, w) == [ws EXCEPT ![w].isBusy = TRUE]

\* mutant of BusyAfterFailure: the worker is freed when a call fails
FreedAfterFailure(ws, c) == [ws EXCEPT ![c.worker].isBusy = FALSE]

\* lines 220-224: the then-callback runs on success only
BusyAfterFailure(ws, c) == ws

\* mutant of BusyAfterSuccess: the callback does not reset the flag
StillBusyAfterSuccess(ws, c) == ws

\* line 221: worker.isBusy = false in the then-callback
BusyAfterSuccess(ws, c) == [ws EXCEPT ![c.worker].isBusy = FALSE]

\* line 181: Promise.all resolves with the promises' values in array order
PromiseAll(promises) == [i \in 1..Len(promises) |-> promises[i].value]

\* the entry of queryLog for a promise after one more call c was issued for it
Logged(entry, c) ==
    [entry EXCEPT !.issued = @ + 1, !.targets = @ \cup {<<c.worker, c.address>>}]

\* the number of failed balanceOf calls queryLog records
RECURSIVE FailedQueries(_)
FailedQueries(log) ==
    IF log = <<>> THEN 0 ELSE Head(log).failed + FailedQueries(Tail(log))

(* ------------------------------- actions ------------------------------ *)

\* lines 239-246: one worker per endpoint of ethRpcArray on chain 'eth', else
\* a single worker on the caller's connection
BuildWorkers(ch, rpcs) ==
    IF ch = "eth"
    THEN [i \in 1..Len(rpcs) |-> [isBusy |-> FALSE]]
    ELSE <<[isBusy |-> FALSE]>>

\* what every specification starts from: no scan has begun
InitScanner ==
    /\ scanned = 0
    /\ pc = "caller"
    /\ tokenAddress = ""
    /\ replies = NoReplies
    /\ tokenObject = NoToken
    /\ localList = <<>>
    /\ workers = <<>>
    /\ taskQueue = <<>>
    /\ completedTasks = <<>>
    /\ availableWorkerIndex = NotFound
    /\ calls = {}
    /\ balances = <<>>
    /\ scanResult = NoResult
    /\ report = NoReport
    /\ launched = <<>>
    /\ queryLog = <<>>

\* one scan of a token without exclusions over a pool of 1..MaxWorkers
\* endpoints, any of which may be down
Init ==
    /\ contractList \in SeqsUpTo(Addresses, MaxLen)
    /\ chain = "eth"
    /\ ethRpcArray \in {[i \in 1..n |-> i] : n \in 1..MaxWorkers}
    /\ down \in SUBSET (1..Len(ethRpcArray))
    /\ tokenList = <<"T1">>
    /\ InitScanner

\* up to MaxScans scans, each of another token, over the same list, on a chain
\* served by the caller's single connection
InitScans ==
    /\ contractList \in SeqsUpTo(Addresses, MaxLen)
    /\ chain = "bsc"
    /\ ethRpcArray = <<1>>
    /\ down = {}
    /\ tokenList \in {ts \in SeqsUpTo(Tokens, MaxScans) :
                          /\ ts # <<>>
                          /\ \A i, j \in 1..Len(ts) : ts[i] = ts[j] => i = j}
    /\ InitScanner

\* lines 284-309: the caller starts the scan of its next token; r is what
\* getTokenInfo's lookups answer.  A getTokenInfo that throws rejects the
\* promise processOneToken returned.
ProcessOneToken(r) ==
    /\ pc \in {"caller", "returned"}
    /\ scanned < Len(tokenList)
    /\ scanned' = scanned + 1
    /\ tokenAddress' = tokenList[scanned + 1]
    /\ replies' = r
    /\ workers' = <<>>
    /\ taskQueue' = <<>>
    /\ completedTasks' = <<>>
    /\ availableWorkerIndex' = NotFound
    /\ balances' = <<>>
    /\ launched' = <<>>
    /\ queryLog' = <<>>
    /\ report' = NoReport
    /\ IF getTokenInfoThrows(r.sym, r.tick, r.sym32, r.api1, r.api2)
       THEN /\ tokenObject' = NoToken
            /\ localList' = <<>>
            /\ scanResult' = NoResult
            /\ pc' = "rejected"
            /\ UNCHANGED contractList
       ELSE /\ tokenObject' = getTokenInfo(r.sym, r.tick, r.sym32, r.dec, r.api1, r.api2)
            /\ localList' = LocalListOf(contractList, tokenAddress')
            /\ contractList' = CallerListAfter(contractList, localList')
            /\ IF InvalidToken(tokenObject')
               THEN /\ scanResult' = [tokenAddress |-> tokenAddress', price |-> 0,
                                      decimals |-> 18, ticker |-> Null, records |-> <<>>]
                    /\ pc' = "returned"
               ELSE /\ scanResult' = NoResult
                    /\ pc' = "findBalances"
    /\ UNCHANGED <<chain, ethRpcArray, down, tokenList, calls>>

\* lines 311, 237-248, 165-170: the pool is built, distributeTasks copies the
\* list and runs to its first await
FindBalances ==
    /\ pc = "findBalances"
    /\ workers' = BuildWorkers(chain, ethRpcArray)
    /\ taskQueue' = localList
    /\ completedTasks' = <<>>
    /\ LET top == LoopTop(workers', taskQueue')
       IN  pc' = top.pc /\ availableWorkerIndex' = top.index
    /\ UNCHANGED <<replies, report, contractList, chain, ethRpcArray, down, tokenList, scanned, tokenAddress, tokenObject,
                   localList, calls, balances, scanResult, launched, queryLog>>

\* lines 172-178, 216-220 and then 168-170: the await of findAvailableWorker
\* resumes, the head of the queue goes to the worker it resolved with, and
\* the loop runs to its next await
AssignTask ==
    /\ pc = "found"
    /\ availableWorkerIndex # NotFound
    /\ LET task == Shift(taskQueue).task
           w    == availableWorkerIndex + 1
           slot == Len(completedTasks) + 1
           c    == FirstCall(w, task, slot)
       IN  /\ taskQueue' = Shift(taskQueue).rest
           /\ workers' = BusyAfterAssign(workers, w)
           /\ calls' = calls \cup {c}
           /\ completedTasks' = Append(completedTasks, [state |-> "pending", value |-> 0])
           /\ launched' = Append(launched, [address |-> task, worker |-> w])
           /\ queryLog' = Append(queryLog,
                                 Logged([issued |-> 0, failed |-> 0, targets |-> {}], c))
    /\ LET top == LoopTop(workers', taskQueue')
       IN  pc' = top.pc /\ availableWorkerIndex' = top.index
    /\ UNCHANGED <<replies, report, contractList, chain, ethRpcArray, down, tokenList, scanned, tokenAddress, tokenObject,
                   localList, balances, scanResult>>

\* lines 193-200: the 10 ms timer fires and checkAvailability finds a worker
CheckAvailability ==
    /\ pc = "polling"
    /\ FindIndexIdle(workers) # NotFound
    /\ pc' = "found"
    /\ availableWorkerIndex' = FindIndexIdle(workers)
    /\ UNCHANGED <<replies, report, contractList, chain, ethRpcArray, down, tokenList, scanned, tokenAddress, tokenObject,
                   localList, workers, taskQueue, completedTasks, calls, balances,
                   scanResult, launched, queryLog>>

\* lines 149 and 220-224: the endpoint answers call c; the then-callback
\* frees the worker and resolves the task's promise
BalanceOfSucceeds(c) ==
    /\ c \in calls
    /\ c.worker \notin down
    /\ calls' = calls \ {c}
    /\ workers' = BusyAfterSuccess(workers, c)
    /\ completedTasks' = [completedTasks EXCEPT ![c.slot] =
                              [state |-> "fulfilled",
                               value |-> Ledger[tokenAddress][c.address]]]
    /\ UNCHANGED <<replies, report, contractList, chain, ethRpcArray, down, tokenList, scanned, pc, tokenAddress, tokenObject,
                   localList, taskQueue, availableWorkerIndex, balances, scanResult,
                   launched, queryLog>>

\* lines 149-152: call c fails; the catch handler logs and calls getBalanceOf
\* again.  The model follows at most MaxFails failures per scan; a request to
\* an endpoint that is down stays in flight after them, as it is never answered.
BalanceOfFails(c) ==
    /\ c \in calls
    /\ FailedQueries(queryLog) < MaxFails
    /\ calls' = CallsAfterFailure(calls, c)
    /\ workers' = BusyAfterFailure(workers, c)
    /\ queryLog' = [queryLog EXCEPT ![c.slot] =
                       [issued  |-> @.issued + Cardinality(calls' \ calls),
                        failed  |-> @.failed + 1,
                        targets |-> @.targets \cup
                                    {<<n.worker, n.address>> : n \in calls' \ calls}]]
    /\ UNCHANGED <<replies, report, contractList, chain, ethRpcArray, down, tokenList, scanned, pc, tokenAddress, tokenObject,
                   localList, taskQueue, completedTasks, availableWorkerIndex, balances,
                   scanResult, launched>>

\* lines 181 and 248: every promise is fulfilled; distributeTasks returns the
\* promises' values to findBalances
Join ==
    /\ pc = "join"
    /\ \A i \in 1..Len(completedTasks) : completedTasks[i].state = "fulfilled"
    /\ balances' = PromiseAll(completedTasks)
    /\ pc' = "aggregate"
    /\ UNCHANGED <<replies, report, contractList, chain, ethRpcArray, down, tokenList, scanned, tokenAddress, tokenObject,
                   localList, workers, taskQueue, completedTasks, availableWorkerIndex,
                   calls, scanResult, launched, queryLog>>

\* mutant of AggregatedList: the records are paired with the caller's list
CallerListAggregated(local, caller) == caller

\* lines 311 and 248: findBalances is given localList and pairs balances[i]
\* with its entry i
AggregatedList(local, caller) == local

\* lines 251-271 and 313-319: findBalances builds and sorts the records and
\* processOneToken returns the result
Aggregate ==
    /\ pc = "aggregate"
    /\ scanResult' = [tokenAddress |-> tokenAddress,
                      ticker       |-> tokenObject.ticker,
                      decimals     |-> tokenObject.decimals,
                      price        |-> tokenObject.price,
                      records      |-> findBalancesRecords(balances,
                                           AggregatedList(localList, contractList),
                                           tokenObject)]
    /\ pc' = "returned"
    /\ UNCHANGED <<replies, report, contractList, chain, ethRpcArray, down, tokenList, scanned, tokenAddress, tokenObject,
                   localList, workers, taskQueue, completedTasks, availableWorkerIndex,
                   calls, balances, launched, queryLog>>

\* lines 329-358: the caller formats the result processOneToken returned
FormatTokenResult ==
    /\ pc = "returned"
    /\ report' = formatTokenResult(scanResult)
    /\ pc' = "formatted"
    /\ UNCHANGED <<replies, contractList, chain, ethRpcArray, down, tokenList, scanned, tokenAddress, tokenObject,
                   localList, workers, taskQueue, completedTasks, availableWorkerIndex,
                   calls, balances, scanResult, launched, queryLog>>

Next ==
    \/ \E r \in ScanReplies : ProcessOneToken(r)
    \/ FindBalances
    \/ AssignTask
    \/ CheckAvailability
    \/ \E c \in calls : BalanceOfSucceeds(c)
    \/ \E c \in calls : BalanceOfFails(c)
    \/ Join
    \/ Aggregate

Spec == Init /\ [][Next]_vars

ScanSpec == InitScans /\ [][Next]_vars

\* The event loop runs every continuation and timer that is ready, and an
\* endpoint that is not down answers a request it has received.
Fairness ==
    /\ WF_vars(FindBalances)
    /\ WF_vars(AssignTask)
    /\ WF_vars(CheckAvailability)
    /\ WF_vars(\E c \in calls : BalanceOfSucceeds(c))
    /\ WF_vars(Join)
    /\ WF_vars(Aggregate)

\* findBalances, which the module exports, called on a list over two addresses
\* for a valid token, with every endpoint reachable
InitFindBalances ==
    /\ localList \in SeqsUpTo({"a", "b"}, MaxLen)
    /\ contractList = localList
    /\ chain = "eth"
    /\ ethRpcArray \in {[i \in 1..n |-> i] : n \in 1..MaxWorkers}
    /\ down = {}
    /\ tokenList = <<"T1">>
    /\ scanned = 1
    /\ pc = "findBalances"
    /\ tokenAddress = "T1"
    /\ replies = NoReplies
    /\ tokenObject \in {info \in TokenInfos :
                            info.valid /\ info.decimals = 2 /\ info.price = 2}
    /\ workers = <<>>
    /\ taskQueue = <<>>
    /\ completedTasks = <<>>
    /\ availableWorkerIndex = NotFound
    /\ calls = {}
    /\ balances = <<>>
    /\ scanResult = NoResult
    /\ report = NoReport
    /\ launched = <<>>
    /\ queryLog = <<>>

NextFindBalances ==
    \/ FindBalances
    \/ AssignTask
    \/ CheckAvailability
    \/ \E c \in calls : BalanceOfSucceeds(c)
    \/ \E c \in calls : BalanceOfFails(c)
    \/ Join
    \/ Aggregate

FairSpec == InitFindBalances /\ [][NextFindBalances]_vars /\ Fairness

(* ------------------ aggregation and report on their own --------------- *)

\* the raw balances distributeTasks may have returned
AggBalances == {0, 3, 5, 100, 150}

\* the address of each position of the list
AggAddresses == <<"a", "b", "c", "d", "e", "f">>

\* valid tokens with an integer price, which keeps line 351 exact
AggTokenObjects ==
    { [ticker |-> t, valid |-> TRUE, decimals |-> d, price |-> p] :
        t \in {"TKN", ""}, d \in {0, 2, 18}, p \in {0, 1, 2} }

\* line 248: distributeTasks has returned some balances to findBalances, one
\* per address of the list, all queried through the caller's connection
InitAggregate ==
    /\ balances \in SeqsUpTo(AggBalances, MaxBalances)
    /\ localList = SubSeq(AggAddresses, 1, Len(balances))
    /\ contractList = localList
    /\ chain = "bsc"
    /\ ethRpcArray = <<1>>
    /\ down = {}
    /\ tokenList = <<"T1">>
    /\ scanned = 1
    /\ pc = "aggregate"
    /\ tokenAddress = "T1"
    /\ replies = NoReplies
    /\ tokenObject \in AggTokenObjects
    /\ workers = <<[isBusy |-> FALSE]>>
    /\ taskQueue = <<>>
    /\ completedTasks = [i \in 1..Len(balances) |->
                            [state |-> "fulfilled", value |-> balances[i]]]
    /\ availableWorkerIndex = 0
    /\ calls = {}
    /\ scanResult = NoResult
    /\ report = NoReport
    /\ launched = [i \in 1..Len(balances) |-> [address |-> localList[i], worker |-> 1]]
    /\ queryLog = [i \in 1..Len(balances) |->
                      [issued |-> 1, failed |-> 0, targets |-> {<<1, localList[i]>>}]]

NextAggregate ==
    \/ Aggregate
    \/ FormatTokenResult

AggSpec == InitAggregate /\ [][NextAggregate]_vars

(* ------------------- one scan under every metadata reply -------------- *)

\* one scan through the caller's connection of a list over two addresses, one
\* of which holds nothing
InitMetadata ==
    /\ contractList \in SeqsUpTo({"a", "b"}, MaxLen)
    /\ chain = "bsc"
    /\ ethRpcArray = <<1>>
    /\ down = {}
    /\ tokenList = <<"T1">>
    /\ InitScanner

NextMetadata ==
    \/ \E r \in WideReplies : ProcessOneToken(r)
    \/ FindBalances
    \/ AssignTask
    \/ CheckAvailability
    \/ \E c \in calls : BalanceOfSucceeds(c)
    \/ \E c \in calls : BalanceOfFails(c)
    \/ Join
    \/ Aggregate
    \/ FormatTokenResult

MetadataSpec == InitMetadata /\ [][NextMetadata]_vars

(* --------------- a scan with exclusions over a pool of workers --------- *)

\* one scan of T3, whose exclusion removes the first "b", over a pool of
\* 1..MaxWorkers reachable endpoints; the list is one longer than MaxLen so
\* that MaxLen addresses can remain
InitPool ==
    /\ contractList \in SeqsUpTo({"a", "b"}, MaxLen + 1)
    /\ chain = "eth"
    /\ ethRpcArray \in {[i \in 1..n |-> i] : n \in 1..MaxWorkers}
    /\ down = {}
    /\ tokenList = <<"T3">>
    /\ InitScanner

PoolSpec == InitPool /\ [][Next]_vars

(* ------------------- a pool with one endpoint down --------------------- *)

\* findBalances called for a valid token over a pool of at least two
\* endpoints, exactly one of which fails forever
InitOneDown ==
    /\ localList \in SeqsUpTo({"a", "b"}, MaxLen)
    /\ contractList = localList
    /\ chain = "eth"
    /\ ethRpcArray \in {[i \in 1..n |-> i] : n \in 2..MaxWorkers}
    /\ down \in {{w} : w \in 1..Len(ethRpcArray)}
    /\ tokenList = <<"T1">>
    /\ scanned = 1
    /\ pc = "findBalances"
    /\ tokenAddress = "T1"
    /\ replies = NoReplies
    /\ tokenObject \in {info \in TokenInfos :
                            info.valid /\ info.decimals = 2 /\ info.price = 2}
    /\ workers = <<>>
    /\ taskQueue = <<>>
    /\ completedTasks = <<>>
    /\ availableWorkerIndex = NotFound
    /\ calls = {}
    /\ balances = <<>>
    /\ scanResult = NoResult
    /\ report = NoReport
    /\ launched = <<>>
    /\ queryLog = <<>>

OneDownSpec == InitOneDown /\ [][NextFindBalances]_vars /\ Fairness

(* ------------------------------- claims ------------------------------- *)

\* a scan of a valid token has returned
Returned == pc = "returned" /\ tokenObject.valid

\* C1: when distributeTasks has returned, its output is as long as its input
\* and position i holds the balance the query for input address i returned,
\* for every pool size and every completion order.
C1_OutputAlignedWithInput ==
    Returned =>
        /\ Len(balances) = Len(localList)
        /\ \A i \in 1..Len(localList) :
               balances[i] = Ledger[tokenAddress][localList[i]]

\* three addresses with three different balances were returned in order,
\* although the second query completed before the first: the third task went
\* to the second worker while the first worker was still busy
C1_Witness ==
    /\ Returned
    /\ localList = <<"a", "b", "c">>
    /\ balances = <<5, 0, 100>>
    /\ launched[1].worker = 1
    /\ launched[2].worker = 2
    /\ launched[3].worker = 2

\* C2: the balance queries in flight (retries included) never outnumber the
\* workers of the pool.
C2_InFlightAtMostPool == Cardinality(calls) <= Len(workers)

\* a pool of two with both workers in flight, one of them on a retry, and a
\* task still waiting
C2_Witness ==
    /\ Len(workers) = 2
    /\ Cardinality(calls) = 2
    /\ \E c \in calls : c.try > 1
    /\ taskQueue # <<>>

\* C3: no worker has two outstanding tasks, and the worker findAvailableWorker
\* resolved with is still idle when the task is assigned to it.
C3_OneTaskPerWorker ==
    /\ \A c, d \in calls : c.worker = d.worker => c = d
    /\ \A c \in calls : workers[c.worker].isBusy
    /\ pc = "found" =>
           /\ ~workers[availableWorkerIndex + 1].isBusy
           /\ \A c \in calls : c.worker # availableWorkerIndex + 1

\* between the idle check and the assignment another worker's completion ran:
\* the check resolved with the second worker, so the first was busy then, and
\* it is idle now
C3_Witness ==
    /\ pc = "found"
    /\ availableWorkerIndex = 1
    /\ ~workers[1].isBusy
    /\ completedTasks # <<>>

\* C4: a query that failed M times and then succeeded gives its promise the
\* address's balance after exactly M + 1 calls, all for that address on the
\* worker the address was assigned to; the returned balance is that value.
C4_RetriesThenSuccess ==
    /\ \A s \in 1..Len(completedTasks) :
           completedTasks[s].state = "fulfilled" =>
               /\ completedTasks[s].value = Ledger[tokenAddress][localList[s]]
               /\ queryLog[s].issued = queryLog[s].failed + 1
               /\ queryLog[s].targets = {<<launched[s].worker, localList[s]>>}
    /\ Returned => \A s \in 1..Len(completedTasks) : balances[s] = completedTasks[s].value

\* a query on the second worker failed twice, then succeeded, and the scan
\* returned
C4_Witness ==
    /\ Returned
    /\ \E s \in 1..Len(completedTasks) :
           /\ queryLog[s].failed = 2
           /\ queryLog[s].issued = 3
           /\ launched[s].worker = 2
           /\ balances[s] = 100

\* the step is a failure of a balance query for promise s
FailureStep(s) ==
    /\ s \in DOMAIN queryLog
    /\ s \in DOMAIN queryLog'
    /\ queryLog'[s].failed = queryLog[s].failed + 1

\* C5: when a balance query fails, its retry is issued for the same address on
\* the same worker; the address does not go back to the queue or to another
\* worker, and its promise stays pending: nothing is returned or thrown.
C5_RetrySameWorkerSameAddress ==
    [][\A s \in 1..MaxLen + 1 :
          FailureStep(s) =>
              /\ \E c \in calls, n \in calls' :
                     /\ c.slot = s /\ n.slot = s
                     /\ n.worker = c.worker
                     /\ n.address = c.address
                     /\ n.try = c.try + 1
                     /\ calls' \ {n} = calls \ {c}
              /\ taskQueue' = taskQueue
              /\ workers' = workers
              /\ completedTasks' = completedTasks
              /\ completedTasks[s].state = "pending"
              /\ pc' = pc
              /\ balances' = balances
              /\ scanResult' = scanResult]_vars

\* a retry is in flight while another worker is idle and a task is waiting
C5_Witness ==
    /\ \E c \in calls : c.try = 2
    /\ \E i \in 1..Len(workers) : ~workers[i].isBusy
    /\ taskQueue # <<>>

\* C6: when no endpoint fails forever (each query fails finitely often), a
\* scan that reached findBalances returns, and at the return the queue is
\* empty, no query is in flight, every promise is fulfilled and every worker
\* is idle.
C6_ScanTerminatesDrained ==
    (pc = "findBalances" /\ down = {}) ~>
        /\ pc = "returned"
        /\ taskQueue = <<>>
        /\ calls = {}
        /\ Len(completedTasks) = Len(localList)
        /\ \A s \in 1..Len(completedTasks) : completedTasks[s].state = "fulfilled"
        /\ \A i \in 1..Len(workers) : ~workers[i].isBusy

\* three addresses on two workers, two failed queries on the way, returned
C6_Witness ==
    /\ Returned
    /\ down = {}
    /\ Len(localList) = 3
    /\ Len(workers) = 2
    /\ FailedQueries(queryLog) = 2
    /\ \A i \in 1..Len(workers) : ~workers[i].isBusy

\* C7: once an address is assigned to a worker whose queries fail forever, the
\* worker is busy in every later state, no other address is ever assigned to
\* it, the address's promise stays pending and the scan does not return.
C7_DownWorkerStalls ==
    \A s \in 1..Len(launched) :
        launched[s].worker \in down =>
            /\ workers[launched[s].worker].isBusy
            /\ \A r \in 1..Len(launched) : launched[r].worker = launched[s].worker => r = s
            /\ completedTasks[s].state = "pending"
            /\ \E c \in calls : c.slot = s /\ c.worker = launched[s].worker
            /\ pc # "returned"

\* the first address sits on the down worker, the other worker has served the
\* two other addresses, and distributeTasks waits in Promise.all
C7_Witness ==
    /\ down = {1}
    /\ Len(workers) = 2
    /\ Len(launched) = 3
    /\ launched[1].worker = 1
    /\ completedTasks[2].state = "fulfilled"
    /\ completedTasks[3].state = "fulfilled"
    /\ FailedQueries(queryLog) = MaxFails
    /\ pc = "join"

\* C8: a scan of a token that getTokenInfo reports invalid has returned
\* [ticker null, price 0, decimals 18, no records], and in that scan no worker
\* was built and no balance query issued.
C8_InvalidTokenShortCircuits ==
    (pc # "caller" /\ ~tokenObject.valid) =>
        /\ pc = "returned"
        /\ scanResult = [tokenAddress |-> tokenAddress, ticker |-> Null, price |-> 0,
                         decimals |-> 18, records |-> <<>>]
        /\ workers = <<>>
        /\ completedTasks = <<>>
        /\ calls = {}
        /\ launched = <<>>
        /\ queryLog = <<>>

\* the second scan is of an invalid token whose decimals lookup answered 2,
\* over a working list that holds addresses with a balance
C8_Witness ==
    /\ pc = "returned"
    /\ scanned = 2
    /\ ~tokenObject.valid
    /\ tokenObject.decimals = 2
    /\ Len(localList) = 3
    /\ scanResult.decimals = 18

\* the addresses excluded for token t
ExcludedFor(t) ==
    IF t \in DOMAIN excludedMap
    THEN {excludedMap[t][i] : i \in 1..Len(excludedMap[t])}
    ELSE {}

\* the positions of list that hold the first occurrence of an address of E
FirstOccurrences(list, E) ==
    {i \in 1..Len(list) : list[i] \in E /\ \A j \in 1..(i - 1) : list[j] # list[i]}

\* list from position i on, without the positions of D
RECURSIVE Without(_, _, _)
Without(list, D, i) ==
    IF i > Len(list) THEN <<>>
    ELSE (IF i \in D THEN <<>> ELSE <<list[i]>>) \o Without(list, D, i + 1)

\* the input list without the first occurrence of each address excluded for t
WorkingList(list, t) == Without(list, FirstOccurrences(list, ExcludedFor(t)), 1)

\* C9: the working list of a scan of token T is the input list without the
\* first occurrence of each address excluded for T, the rest in input order;
\* an excluded address that is not in the list changes nothing.
C9_FirstOccurrenceRemoved ==
    pc # "caller" =>
        /\ localList = WorkingList(contractList, tokenAddress)
        /\ pc \in {"found", "polling", "join"} =>
               [i \in 1..Len(launched) |-> launched[i].address] \o taskQueue = localList

\* T2 excludes c and a: of the two a's of the list only the first is dropped,
\* and c, which is not in the list, changes nothing
C9_Witness ==
    /\ pc = "returned"
    /\ tokenAddress = "T2"
    /\ contractList = <<"b", "a", "a">>
    /\ localList = <<"b", "a">>

\* C10: a scan never changes the caller's list, so each scan of a valid token,
\* whatever was scanned before it, queries the caller's list without the
\* addresses excluded for its own token only.
C10_CallerListUntouched ==
    /\ [][contractList' = contractList]_vars
    /\ [](Returned =>
            [i \in 1..Len(launched) |-> launched[i].address]
                = WorkingList(contractList, tokenAddress))

\* after the scan of T2, which excludes c and a, the scan of T3 queried a and c
C10_Witness ==
    /\ Returned
    /\ tokenList = <<"T2", "T3">>
    /\ scanned = 2
    /\ contractList = <<"a", "b", "c">>
    /\ balances = <<1234, 700>>

\* the positions of the balances findBalances makes a record for
Positive == {i \in 1..Len(balances) : balances[i] > 0}

\* the roundedAmount of the returned records, in order
RoundedAmounts ==
    [k \in 1..Len(scanResult.records) |-> scanResult.records[k].roundedAmount]

\* C11: findBalances produces a record for exactly the addresses whose raw
\* balance is strictly positive, the records are ordered by roundedAmount
\* descending, and balances [5, 0, 100, 3] at 0 decimals with price 1 give the
\* roundedAmount sequence [100, 5, 3].
C11_RecordsPositiveSortedDescending ==
    pc \in {"returned", "formatted"} =>
        LET rs == scanResult.records
        IN  /\ Len(rs) = Cardinality(Positive)
            /\ \A i \in Positive :
                   \E k \in 1..Len(rs) :
                       rs[k].contract = localList[i] /\ rs[k].amount = balances[i]
            /\ \A k \in 1..(Len(rs) - 1) : rs[k].roundedAmount >= rs[k + 1].roundedAmount
            /\ (balances = <<5, 0, 100, 3>> /\ tokenObject.decimals = 0
                    /\ tokenObject.price = 1)
                   => RoundedAmounts = <<100, 5, 3>>

C11_Witness ==
    /\ pc = "returned"
    /\ balances = <<5, 0, 100, 3>>
    /\ tokenObject.decimals = 0
    /\ tokenObject.price = 1
    /\ RoundedAmounts = <<100, 5, 3>>

\* the sum of f[i] over the positions of S
RECURSIVE SumOver(_, _)
SumOver(f, S) ==
    IF S = {} THEN 0 ELSE LET i == CHOOSE i \in S : TRUE IN f[i] + SumOver(f, S \ {i})

\* the sum of the raw balances, of their whole tokens and of their fractions
RawSum == SumOver(balances, Positive)
WholeSum ==
    SumOver([i \in 1..Len(balances) |-> DivPow10(balances[i], scanResult.decimals)], Positive)
FractionSum ==
    SumOver([i \in 1..Len(balances) |-> RemPow10(balances[i], scanResult.decimals)], Positive)

\* a report with a header total has been written
HeaderWritten == pc = "formatted" /\ scanResult.ticker # ""

\* C12: the header total of the report is the sum of the raw amounts scaled
\* once by 10^decimals, not the sum of the per-record roundedAmount values; the
\* two differ whenever the records' fractional parts add up to a whole token.
C12_HeaderTotalFromRawSum ==
    HeaderWritten =>
        LET d == scanResult.decimals
            exact   == Scaled(RawSum, d)
            rounded == [int |-> WholeSum, frac |-> 0, scale |-> d]
        IN  /\ report.resStr[1] =
                   HeaderLine(scanResult.ticker, tokenAddress, exact,
                              Scaled(RawSum * scanResult.price, d))
            /\ DivPow10(FractionSum, d) >= 1 =>
                   report.resStr[1] #
                       HeaderLine(scanResult.ticker, tokenAddress, rounded,
                                  [rounded EXCEPT !.int = @ * scanResult.price])

C12_Witness ==
    /\ HeaderWritten
    /\ scanResult.decimals = 2
    /\ balances = <<150, 150>>
    /\ scanResult.price = 1
    /\ report.resStr[1] = "TKN [T1]: 3 tokens lost / $3"

\* processOneToken has returned the result of a scan of a valid token
ResultReturned == pc \in {"returned", "formatted"} /\ tokenObject.valid

\* the decimals lookup returned a number
NumericDecimals == replies.dec.ok /\ replies.dec.numeric

\* C13: the decimals used to scale balances and reported in the ScanResult
\* equal the value the decimals lookup returned whenever that value is numeric,
\* 0 included; 18 is used only when the lookup fails or is not numeric.
C13_DecimalsAsLookedUp ==
    ResultReturned =>
        LET decimals == IF NumericDecimals THEN replies.dec.val ELSE 18
        IN  /\ scanResult.decimals = decimals
            /\ \A k \in 1..Len(scanResult.records) :
                   scanResult.records[k].roundedAmount =
                       DivPow10(scanResult.records[k].amount, decimals)

\* the ticker lookups of the current scan found a token
ValidByReplies == TickerLookup(replies.sym, replies.tick, replies.sym32).valid

\* a price lookup that fails or returns no price
Priceless(reply) == ~reply.ok \/ reply \in PricelessReplies

\* C14: when the token is valid but every price lookup fails or returns no
\* price, no failure aborts the scan: the price is 0, every address of the
\* working list is queried, the records are returned with dollar value "0.00"
\* and the report's total USD is 0.
C14_PriceFailureKeepsScan ==
    (scanned = 1 /\ ValidByReplies /\ Priceless(replies.api1) /\ Priceless(replies.api2)) =>
        /\ pc # "rejected"
        /\ tokenObject.price = 0
        /\ pc \in {"returned", "formatted"} =>
               /\ [k \in 1..Len(launched) |-> launched[k].address] = localList
               /\ Len(scanResult.records) = Cardinality(Positive)
               /\ \A k \in 1..Len(scanResult.records) :
                      scanResult.records[k].dollarValue = "0.00"
        /\ pc = "formatted" => report.asDollar.int = 0 /\ report.asDollar.frac = 0

\* distributeTasks has been entered for the current scan
Distributing == pc \in {"found", "polling", "join", "aggregate"} \/ Returned

\* C15: addresses are assigned in strict input order: the k-th query launched
\* is the query for input address k, whatever the completion order of the
\* earlier queries, and the addresses still waiting are the rest of the input.
C15_AssignedInInputOrder ==
    Distributing =>
        /\ Len(launched) <= Len(localList)
        /\ \A k \in 1..Len(launched) : launched[k].address = localList[k]
        /\ \A c \in calls : c.slot <= Len(launched) /\ c.address = localList[c.slot]
        /\ \A j \in 1..Len(taskQueue) : taskQueue[j] = localList[Len(launched) + j]

\* the third address was launched while the first query was still on a retry
\* and the second had completed
C15_Witness ==
    /\ localList = <<"a", "b", "c">>
    /\ [k \in 1..Len(launched) |-> launched[k].address] = <<"a", "b", "c">>
    /\ completedTasks[1].state = "pending"
    /\ completedTasks[2].state = "fulfilled"
    /\ queryLog[1].failed > 0

\* some step hands the head of the queue to worker w
Handover(w) ==
    /\ taskQueue' = Tail(taskQueue)
    /\ launched' = Append(launched, [address |-> Head(taskQueue), worker |-> w])
    /\ ~workers[w].isBusy

\* C16: every address of the working list is handed to exactly one worker
\* exactly once: an address leaves the queue only by being launched on one
\* worker, every request issued for it goes to that worker, and at the return
\* every address has been launched.
C16_EachAddressLaunchedOnce ==
    /\ [][(pc \in {"found", "polling"} /\ (taskQueue' # taskQueue \/ launched' # launched))
              => \E w \in 1..Len(workers) : Handover(w)]_vars
    /\ [](Distributing =>
            /\ Len(launched) + Len(taskQueue) = Len(localList)
            /\ Len(completedTasks) = Len(launched)
            /\ \A s \in 1..Len(launched) :
                   queryLog[s].targets = {<<launched[s].worker, launched[s].address>>})
    /\ [](Returned => Len(launched) = Len(localList))

\* the same address appears three times in the list: it was launched three
\* times, once per occurrence, on two workers
C16_Witness ==
    /\ Returned
    /\ localList = <<"a", "a", "a">>
    /\ Len(launched) = 3
    /\ \E s, t \in 1..3 : launched[s].worker # launched[t].worker

\* C17: distributeTasks distributes tasks round-robin: with N workers the k-th
\* assigned task, counting from 0, is given to worker k mod N.
C17_RoundRobin ==
    \A k \in 1..Len(launched) : launched[k].worker = ((k - 1) % Len(workers)) + 1

\* worker w has a launched query that has not succeeded yet
HasUnfinishedQuery(w) ==
    \E s \in 1..Len(launched) :
        launched[s].worker = w /\ completedTasks[s].state = "pending"

\* C18: a worker's busy flag is true exactly when the worker has a launched
\* query that has not yet succeeded; it is set at the assignment and cleared
\* only by the successful completion of that same query.
C18_BusyIffUnfinishedQuery ==
    /\ [](\A w \in 1..Len(workers) : workers[w].isBusy <=> HasUnfinishedQuery(w))
    /\ [][\A w \in 1..Len(workers) :
             Len(workers') = Len(workers) =>
                 /\ (~workers[w].isBusy /\ workers'[w].isBusy) =>
                        /\ Len(launched') = Len(launched) + 1
                        /\ launched'[Len(launched')].worker = w
                 /\ (workers[w].isBusy /\ ~workers'[w].isBusy) =>
                        \E s \in 1..Len(launched) :
                            /\ launched[s].worker = w
                            /\ completedTasks[s].state = "pending"
                            /\ completedTasks'[s].state = "fulfilled"]_vars

\* a worker is still busy after its query failed twice, while the other
\* worker has completed a query and is idle again
C18_Witness ==
    /\ Len(workers) = 2
    /\ \E w \in 1..2, s \in 1..Len(launched) :
           /\ workers[w].isBusy
           /\ launched[s].worker = w
           /\ queryLog[s].failed = 2
    /\ \E w \in 1..2, s \in 1..Len(launched) :
           /\ ~workers[w].isBusy
           /\ launched[s].worker = w
           /\ completedTasks[s].state = "fulfilled"

\* C19: end to end, every record of a scan pairs an address with that
\* address's own balance: its raw amount is the value the balance query
\* returned for the record's address, also when exclusions removed addresses
\* before querying and whatever the completion order of the queries.
C19_RecordPairsAddressWithItsBalance ==
    Returned =>
        LET rs == scanResult.records
        IN  /\ \A k \in 1..Len(rs) :
                   /\ rs[k].amount = Ledger[tokenAddress][rs[k].contract]
                   /\ \E s \in 1..Len(launched) :
                          /\ launched[s].address = rs[k].contract
                          /\ completedTasks[s].value = rs[k].amount
            /\ \A a \in Addresses :
                   Cardinality({k \in 1..Len(rs) : rs[k].contract = a}) =
                       IF Ledger[tokenAddress][a] > 0
                       THEN Cardinality({s \in 1..Len(localList) : localList[s] = a})
                       ELSE 0

\* the exclusion removed the first "b"; of the three addresses left the third
\* went to the second worker, which had completed its query before the first
\* worker did
C19_Witness ==
    /\ Returned
    /\ contractList = <<"b", "a", "b", "a">>
    /\ localList = <<"a", "b", "a">>
    /\ launched[3].worker = 2
    /\ [k \in 1..3 |-> <<scanResult.records[k].contract, scanResult.records[k].amount>>]
           = << <<"a", 1234>>, <<"a", 1234>>, <<"b", 7>> >>

\* the promises of the queries launched on the endpoint that is down
Stuck == {s \in 1..Len(launched) : launched[s].worker \in down}

\* every address has been launched, at most one of them on the endpoint that
\* is down, and every other query has succeeded
DrainedAroundDown ==
    /\ taskQueue = <<>>
    /\ Len(launched) = Len(localList)
    /\ Cardinality(Stuck) <= 1
    /\ \A s \in 1..Len(launched) :
           s \notin Stuck =>
               /\ completedTasks[s].state = "fulfilled"
               /\ completedTasks[s].value = Ledger[tokenAddress][localList[s]]

\* C20: in a pool of N >= 2 workers where one worker's queries fail forever and
\* the others' eventually succeed, every address other than the one stuck on
\* the failing worker is eventually assigned to a healthy worker and queried
\* successfully (the queue drains), although the scan never returns.
C20_QueueDrainsAroundDownWorker ==
    /\ (pc = "findBalances") ~> DrainedAroundDown
    /\ [](Stuck # {} => pc \notin {"aggregate", "returned"})

\* the first address is stuck on the first worker, which is down; the other
\* two went through the second worker, one after the other, and succeeded
C20_Witness ==
    /\ down = {1}
    /\ localList = <<"a", "b", "a">>
    /\ DrainedAroundDown
    /\ Stuck = {1}
    /\ queryLog[1].failed = MaxFails
    /\ launched[2].worker = 2 /\ launched[3].worker = 2
    /\ pc = "join"

=========================================================================
